---- MODULE Spec2Model ----
(***************************************************************************)
(* Model of app/parse.py: a Selenium scraper that opens one Chrome         *)
(* session, visits the six catalog pages in order, paginates each page     *)
(* with the "more" control, reads every product element into a Product,    *)
(* closes the session and writes one csv file per category.                *)
(*                                                                         *)
(* The browser and the file system are the environment: what a lookup      *)
(* finds, and whether a browser call or open() fails, is drawn             *)
(* nondeterministically from small sets.                                   *)
(***************************************************************************)
EXTENDS Integers, Sequences, FiniteSets, TLC

\* ------------------------------------------------------------------ bounds
\* most further batches of products a page offers through its "more" control
MaxClicks == 2
\* most product elements the site serves during one run (all pages together)
MaxElems == 2
\* longest review-count text drawn for the get_review_count inputs
MaxLen == 4

\* ------------------------------------------------------------ static data
BASE_URL == "https://webscraper.io/test-sites/"

\* urljoin(base, rel) for a base ending in "/" and a relative path without
\* scheme or leading "/": the path is appended to the base directory
urljoin(base, rel) == base \o rel

\* the dict literal, as the sequence of its items in insertion order
PAGE_URLS ==
  << [name |-> "home",      url |-> urljoin(BASE_URL, "e-commerce/more/")],
     [name |-> "computers", url |-> urljoin(BASE_URL, "e-commerce/more/computers")],
     [name |-> "laptops",   url |-> urljoin(BASE_URL, "e-commerce/more/computers/laptops")],
     [name |-> "tablets",   url |-> urljoin(BASE_URL, "e-commerce/more/computers/tablets")],
     [name |-> "phones",    url |-> urljoin(BASE_URL, "e-commerce/more/phones")],
     [name |-> "touch",     url |-> urljoin(BASE_URL, "e-commerce/more/phones/touch")] >>

NumPages == Len(PAGE_URLS)

\* a mutation of the dataclass: fields declared in the order they are read
PRODUCT_FIELDS_ExtractionOrder ==
  << "title", "price", "description", "rating", "num_of_reviews" >>

\* fields(Product), in declaration order
PRODUCT_FIELDS ==
  << "title", "description", "price", "rating", "num_of_reviews" >>

\* Optional values: <<>> is "no such element", <<v>> is a found value
None == << >>
Some(v) == << v >>

\* ------------------------------------------------------- text conversions
\* Texts are sequences of one-character strings.
Digits == { "0", "1", "2", "3", "4", "5", "6", "7", "8", "9" }

DigitVal(c) ==
  CASE c = "0" -> 0 [] c = "1" -> 1 [] c = "2" -> 2 [] c = "3" -> 3
    [] c = "4" -> 4 [] c = "5" -> 5 [] c = "6" -> 6 [] c = "7" -> 7
    [] c = "8" -> 8 [] c = "9" -> 9

IsSpace(c) == c = " "

RECURSIVE SplitAcc(_, _, _)
\* str.split() without arguments: the maximal runs of non-whitespace
SplitAcc(s, cur, acc) ==
  IF s = << >>
    THEN IF cur = << >> THEN acc ELSE Append(acc, cur)
    ELSE IF IsSpace(Head(s))
           THEN SplitAcc(Tail(s), << >>, IF cur = << >> THEN acc ELSE Append(acc, cur))
           ELSE SplitAcc(Tail(s), Append(cur, Head(s)), acc)

split(s) == SplitAcc(s, << >>, << >>)

AllDigits(s) == \A i \in 1..Len(s) : s[i] \in Digits

RECURSIVE DecValue(_)
DecValue(s) ==
  IF s = << >> THEN 0
  ELSE DecValue(SubSeq(s, 1, Len(s) - 1)) * 10 + DigitVal(s[Len(s)])

\* int(token): <<n>> for a decimal literal, <<>> for ValueError
int(tok) == IF tok # << >> /\ AllDigits(tok) THEN Some(DecValue(tok)) ELSE None

\* str.replace(old, ""): every occurrence of the character removed
RECURSIVE replace(_, _)
replace(s, old) ==
  IF s = << >> THEN << >>
  ELSE IF Head(s) = old THEN replace(Tail(s), old)
       ELSE << Head(s) >> \o replace(Tail(s), old)

RECURSIVE Pow10(_)
Pow10(k) == IF k = 0 THEN 1 ELSE 10 * Pow10(k - 1)

RECURSIVE Normal(_, _)
\* a decimal m / 10^e without trailing fractional zeros
Normal(m, e) ==
  IF e > 0 /\ m % 10 = 0 THEN Normal(m \div 10, e - 1) ELSE [m |-> m, e |-> e]

DotAt(s) == { i \in 1..Len(s) : s[i] = "." }

\* float(text) for texts of digits and ".": <<value>>, or <<>> for ValueError
float(s) ==
  LET dots == DotAt(s) IN
  IF dots = {}
    THEN IF s # << >> /\ AllDigits(s) THEN Some(Normal(DecValue(s), 0)) ELSE None
    ELSE IF Cardinality(dots) > 1 THEN None
    ELSE LET d    == CHOOSE i \in dots : TRUE
             ip   == SubSeq(s, 1, d - 1)
             fp   == SubSeq(s, d + 1, Len(s))
         IN IF AllDigits(ip) /\ AllDigits(fp) /\ Len(ip) + Len(fp) > 0
              THEN Some(Normal(DecValue(ip) * Pow10(Len(fp)) + DecValue(fp), Len(fp)))
              ELSE None

\* ------------------------------------------------------- product elements
\* What the DOM holds under one "thumbnail" element: the title attribute of
\* the .title node, the text of the .price, .description and .review-count
\* nodes (each <<>> when the node is missing) and the number of nodes that
\* match "p:nth-of-type(2) > span".
Elem(t, p, d, n, r) ==
  [title |-> t, price |-> p, description |-> d, spans |-> n, review |-> r]

GoodElems ==
  { Elem(Some("A"), Some(<<"$", "9", ".", "5">>), Some("a"), 3, Some(<<"1", "2", " ", "r">>)),
    Elem(Some("B"), Some(<<"$", "1", "2">>),      Some("b"), 0, None),
    Elem(Some("C"), Some(<<"$", "0", ".", "5", "0">>), Some("c"), 5, Some(<<"7">>)) }

\* elements that make the iteration raise: at get_title, at get_price (the
\* description is missing too, but is read later), at get_description, and
\* a price text that is no number
BadElems ==
  { Elem(None,      None,               Some("x"), 1, None),
    Elem(Some("X"), None,               None,      1, None),
    Elem(Some("X"), Some(<<"$", "1">>), None,      1, Some(<<"1">>)),
    Elem(Some("X"), Some(<<"$">>),      Some("x"), 1, None) }

Elems == GoodElems \cup BadElems

\* the steps of one loop iteration, lines 41-45, in the order they run
ReadSteps ==
  << "get_title", "get_price", "get_description", "get_rating", "get_review_count" >>

\* outcome of a call: a value, or the exception it raises
Ok(v) == [ok |-> TRUE, val |-> v, err |-> "none"]
Err(type) == [ok |-> FALSE, val |-> 0, err |-> type]

\* `up` is FALSE when the browser session fails under the call
get_title(product_element, up) ==
  IF ~up THEN Err("WebDriverException")
  ELSE IF product_element.title = None THEN Err("NoSuchElementException")
  ELSE Ok(product_element.title[1])

get_price(product_element, up) ==
  IF ~up THEN Err("WebDriverException")
  ELSE IF product_element.price = None THEN Err("NoSuchElementException")
  ELSE LET f == float(replace(product_element.price[1], "$"))
       IN IF f = None THEN Err("ValueError") ELSE Ok(f[1])

\* a mutation: a missing description is read as the empty text
get_description_Default(product_element, up) ==
  IF ~up THEN Err("WebDriverException")
  ELSE IF product_element.description = None THEN Ok("")
  ELSE Ok(product_element.description[1])

get_description(product_element, up) ==
  IF ~up THEN Err("WebDriverException")
  ELSE IF product_element.description = None THEN Err("NoSuchElementException")
  ELSE Ok(product_element.description[1])

get_rating(product_element, up) ==
  IF ~up THEN Err("WebDriverException")
  ELSE Ok(product_element.spans)

\* a mutation: the lookup without the try statement
get_review_count_Unhandled(product, up) ==
  IF ~up THEN Err("WebDriverException")
  ELSE IF product.review = None THEN Err("NoSuchElementException")
  ELSE LET toks == split(product.review[1])
       IN IF toks = << >> THEN Err("IndexError")
          ELSE LET n == int(toks[1])
               IN IF n = None THEN Err("ValueError") ELSE Ok(n[1])

\* a mutation: the second token of the text is parsed instead of the first
get_review_count_SecondToken(product, up) ==
  IF ~up THEN Err("WebDriverException")
  ELSE IF product.review = None THEN Ok(0)
  ELSE LET toks == split(product.review[1])
       IN IF Len(toks) < 2 THEN Err("IndexError")
          ELSE LET n == int(toks[2])
               IN IF n = None THEN Err("ValueError") ELSE Ok(n[1])

get_review_count(product, up) ==
  IF ~up THEN Err("WebDriverException")
  ELSE IF product.review = None THEN Ok(0)
  ELSE LET toks == split(product.review[1])
       IN IF toks = << >> THEN Err("IndexError")
          ELSE LET n == int(toks[1])
               IN IF n = None THEN Err("ValueError") ELSE Ok(n[1])

Raised(type, at) == [ok |-> FALSE, exc |-> [type |-> type, at |-> at]]

\* Product(title=..., description=..., price=..., rating=..., num_of_reviews=...)
BuildProduct(title, price, description, rating, review_count) ==
  [title |-> title, description |-> description, price |-> price,
   rating |-> rating, num_of_reviews |-> review_count]

\* One iteration of the loop of lines 40-54 on one element; failAt names the
\* step at which the browser session fails ("none": it does not).
ParseProduct(e, failAt) ==
  LET title == get_title(e, failAt # "get_title") IN
  IF ~title.ok THEN Raised(title.err, "get_title") ELSE
  LET price == get_price(e, failAt # "get_price") IN
  IF ~price.ok THEN Raised(price.err, "get_price") ELSE
  LET description == get_description(e, failAt # "get_description") IN
  IF ~description.ok THEN Raised(description.err, "get_description") ELSE
  LET rating == get_rating(e, failAt # "get_rating") IN
  IF ~rating.ok THEN Raised(rating.err, "get_rating") ELSE
  LET review_count == get_review_count(e, failAt # "get_review_count") IN
  IF ~review_count.ok THEN Raised(review_count.err, "get_review_count") ELSE
  [ok |-> TRUE,
   product |-> BuildProduct(title.val, price.val, description.val,
                            rating.val, review_count.val)]

\* ------------------------------------------------------------ file system
FileName(page_name) == page_name \o ".csv"

CsvPaths == { FileName(PAGE_URLS[i].name) : i \in 1..NumPages }

\* the working directory: the six output paths and one unrelated file
Paths == CsvPaths \cup { "notes.csv" }

NoFile == [exists |-> FALSE, rows |-> << >>]

\* what an earlier run left behind
OldFile ==
  [exists |-> TRUE,
   rows |-> << PRODUCT_FIELDS, << "old", "o", [m |-> 1, e |-> 0], 1, 1 >> >>]

\* the directory a run starts in: some output files exist already (and are
\* to be overwritten), the others do not (and are to be created)
StartDir ==
  [p \in Paths |-> IF p \in { "home.csv", "phones.csv", "notes.csv" } THEN OldFile ELSE NoFile]

\* the dict built at lines 143-149
RowDict(product) ==
  [title |-> product.title, description |-> product.description,
   price |-> product.price, rating |-> product.rating,
   num_of_reviews |-> product.num_of_reviews]

\* csv.DictWriter._dict_to_list: the values in the order of fieldnames
DictToList(rowdict, fieldnames) ==
  [i \in 1..Len(fieldnames) |-> rowdict[fieldnames[i]]]

\* the rows csv.DictWriter puts into one file: writeheader, then writerow
\* for every product
CsvRows(prods) ==
  << PRODUCT_FIELDS >> \o
  [i \in 1..Len(prods) |-> DictToList(RowDict(prods[i]), PRODUCT_FIELDS)]

\* d[k] = v on a dict kept as the sequence of its items
DictSet(d, k, v) ==
  IF \E i \in 1..Len(d) : d[i].name = k
    THEN [i \in 1..Len(d) |-> IF d[i].name = k THEN [name |-> k, products |-> v] ELSE d[i]]
    ELSE Append(d, [name |-> k, products |-> v])

\* ------------------------------------------------------------------ state
VARIABLES
  pc,            \* the statement the program is at
  driver,        \* "none", "open" or "closed": the Chrome session
  sessions,      \* webdriver.Chrome() calls that opened a session
  quits,         \* driver.quit() calls
  lateOps,       \* TRUE once a browser call was issued on a closed session
  loads,         \* the urls passed to driver.get, in order
  button,        \* the "more" control in the DOM: "absent", "hidden", "displayed"
  more,          \* batches of products the loaded page still offers
  last,          \* the latest call of the current parse_products_on_page, with its result
  found,         \* what the latest find_element for an optional element found
  reads,         \* find_elements calls of the current parse_products_on_page
  did,           \* what that call did besides looking up: "scroll", "click", "sleep"
  pageIdx,       \* position of the for loop of line 122 in PAGE_URLS
  products,      \* local of parse_products_on_page
  elements,      \* what find_elements returned at line 40
  elemIdx,       \* position of the for loop of line 40
  seen,          \* per page returned, the title nodes of the elements found at line 40
  served,        \* product elements served so far in the run
  products_data, \* local of scrape_products
  exc,           \* <<>> or the exception in flight / that ended the run
  result,        \* <<>> or what scrape_products returned
  files,         \* the working directory
  opened,        \* the paths write_to_csv opened, in order
  w              \* position of the for loop of line 131

vars ==
  << pc, driver, sessions, quits, lateOps, loads, button, more, more, last, found, reads,
     did, pageIdx, products, elements, elemIdx, seen, served,
     products_data, exc, result, files, opened, w >>

pageLocals == << last, found, reads, did, products, elements, elemIdx >>
sessionVars == << driver, sessions, quits >>
writerVars == << result, files, opened, w >>

ButtonStates == { "absent", "hidden", "displayed" }

Init ==
  /\ pc = "start"
  /\ driver = "none"
  /\ sessions = 0
  /\ quits = 0
  /\ lateOps = FALSE
  /\ loads = << >>
  /\ button = "absent"
  /\ more = 0
  /\ last = "none"
  /\ found = "none"
  /\ reads = 0
  /\ did = {}
  /\ pageIdx = 0
  /\ products = << >>
  /\ elements = << >>
  /\ elemIdx = 0
  /\ seen = << >>
  /\ served = 0
  /\ products_data = << >>
  /\ exc = << >>
  /\ result = << >>
  /\ files = StartDir
  /\ opened = << >>
  /\ w = 0

\* a call on the driver or on one of its elements
BrowserOp == lateOps' = (lateOps \/ driver # "open")

\* an exception leaves parse_products_on_page: its frame is dropped and
\* control reaches the finally clause of scrape_products
Unwind(type, at) ==
  /\ exc' = << [type |-> type, at |-> at] >>
  /\ pc' = "finally"
  /\ last' = "none"
  /\ found' = "none"
  /\ reads' = 0
  /\ did' = {}
  /\ products' = << >>
  /\ elements' = << >>
  /\ elemIdx' = 0

\* ---------------------------------------------------------------- actions
\* line 119 (and 121): webdriver.Chrome(), outside the try statement; when it
\* raises, the exception leaves scrape_products and get_all_products
Open ==
  /\ pc = "start"
  /\ \/ /\ driver' = "open"
        /\ sessions' = sessions + 1
        /\ products_data' = << >>
        /\ pageIdx' = 1
        /\ pc' = "get"
        /\ exc' = exc
     \/ /\ exc' = << [type |-> "WebDriverException", at |-> "Chrome"] >>
        /\ pc' = "aborted"
        /\ UNCHANGED << driver, sessions, products_data, pageIdx >>
  /\ UNCHANGED << quits, lateOps, loads, button, more, pageLocals, seen, served, writerVars >>

\* The page after a load or a click, offering at most m further batches: the
\* control is displayed only while there is a batch left; otherwise it is
\* hidden or removed.
Arrives(m) ==
  \/ m > 0 /\ button' = "displayed" /\ more' = m
  \/ button' \in { "absent", "hidden" } /\ more' = 0

\* line 35: driver.get(url); the page that arrives decides the "more" control
Get ==
  /\ pc = "get"
  /\ BrowserOp
  /\ loads' = Append(loads, PAGE_URLS[pageIdx].url)
  /\ \/ /\ \E m \in 0..MaxClicks : Arrives(m)
        /\ pc' = "cookies"
        /\ last' = "get"
        /\ found' = "none"
        /\ reads' = 0
        /\ did' = {}
        /\ products' = << >>
        /\ UNCHANGED << elements, elemIdx, exc >>
     \/ /\ Unwind("WebDriverException", "get")
        /\ UNCHANGED << button, more >>
  /\ UNCHANGED << sessionVars, pageIdx, seen, served, products_data, writerVars >>

\* lines 84-92: accept_cookies_if_asked
AcceptCookies ==
  /\ pc = "cookies"
  /\ BrowserOp
  /\ \/ \E banner \in { "absent", "hidden", "displayed" } :
          /\ found' = banner
          /\ did' = IF banner = "displayed" THEN { "click" } ELSE {}
          /\ last' = "cookies"
          /\ pc' = "has_next"
          /\ UNCHANGED << reads, products, elements, elemIdx, exc >>
     \/ Unwind("WebDriverException", "accept_cookies_if_asked")
  /\ UNCHANGED << sessionVars, loads, button, more, pageIdx, seen, served,
                  products_data, writerVars >>

\* a mutation: the loop test negated (while not has_next_page)
HasNextPage_Negated ==
  /\ pc = "has_next"
  /\ BrowserOp
  /\ \/ /\ found' = button
        /\ last' = IF button = "displayed" THEN "has:T" ELSE "has:F"
        /\ pc' = IF button = "displayed" THEN "find" ELSE "navigate"
        /\ did' = {}
        /\ UNCHANGED << reads, products, elements, elemIdx, exc >>
     \/ Unwind("WebDriverException", "has_next_page")
  /\ UNCHANGED << sessionVars, loads, button, more, pageIdx, seen, served,
                  products_data, writerVars >>

\* lines 95-102 and the loop test of line 38
HasNextPage ==
  /\ pc = "has_next"
  /\ BrowserOp
  /\ \/ /\ found' = button
        /\ last' = IF button = "displayed" THEN "has:T" ELSE "has:F"
        /\ pc' = IF button = "displayed" THEN "navigate" ELSE "find"
        /\ did' = {}
        /\ UNCHANGED << reads, products, elements, elemIdx, exc >>
     \/ Unwind("WebDriverException", "has_next_page")
  /\ UNCHANGED << sessionVars, loads, button, more, pageIdx, seen, served,
                  products_data, writerVars >>

\* a mutation: an advance that finds no control is repeated
NavigateToNextPage_Retry ==
  /\ pc = "navigate"
  /\ BrowserOp
  /\ \/ /\ button' = "absent"
        /\ more' = 0
        /\ found' = "absent"
        /\ did' = {}
        /\ last' = "nav:F"
        /\ pc' = "navigate"
        /\ UNCHANGED << reads, products, elements, elemIdx, exc >>
     \/ /\ button = "displayed"
        /\ Arrives(more - 1)
        /\ found' = "displayed"
        /\ did' = { "scroll", "click", "sleep" }
        /\ last' = "nav:T"
        /\ pc' = "has_next"
        /\ UNCHANGED << reads, products, elements, elemIdx, exc >>
  /\ UNCHANGED << sessionVars, loads, pageIdx, seen, served, products_data, writerVars >>

\* lines 105-115 (the caller, line 39, drops the return value). The page may
\* have changed since has_next_page looked: the control found here is the
\* one of the DOM, or it has been removed or hidden in the meantime. A click
\* on a hidden control raises; a click on a displayed one makes the page
\* fetch a batch.
NavigateToNextPage ==
  /\ pc = "navigate"
  /\ BrowserOp
  /\ \/ /\ button' = "absent"
        /\ more' = 0
        /\ found' = "absent"
        /\ did' = {}
        /\ last' = "nav:F"
        /\ pc' = "has_next"
        /\ UNCHANGED << reads, products, elements, elemIdx, exc >>
     \/ /\ button = "displayed"
        /\ Arrives(more - 1)
        /\ found' = "displayed"
        /\ did' = { "scroll", "click", "sleep" }
        /\ last' = "nav:T"
        /\ pc' = "has_next"
        /\ UNCHANGED << reads, products, elements, elemIdx, exc >>
     \/ /\ button' = "hidden"
        /\ more' = 0
        /\ Unwind("ElementNotInteractableException", "navigate_to_next_page")
     \/ /\ UNCHANGED << button, more >>
        /\ Unwind("WebDriverException", "navigate_to_next_page")
  /\ UNCHANGED << sessionVars, loads, pageIdx, seen, served, products_data, writerVars >>

\* the lists of product elements a page may hold
ElemSeqs(n) == UNION { [1..k -> Elems] : k \in 0..n }

\* line 40: driver.find_elements(By.CLASS_NAME, "thumbnail")
FindElements ==
  /\ pc = "find"
  /\ BrowserOp
  /\ \/ \E es \in ElemSeqs(MaxElems - served) :
          /\ elements' = es
          /\ elemIdx' = 1
          /\ served' = served + Len(es)
          /\ last' = "find"
          /\ reads' = reads + 1
          /\ pc' = "element"
          /\ did' = {}
          /\ UNCHANGED << found, products, exc >>
     \/ /\ Unwind("WebDriverException", "find_elements")
        /\ UNCHANGED served
  /\ UNCHANGED << sessionVars, loads, button, more, pageIdx, seen, products_data, writerVars >>

\* lines 41-54: one iteration of the loop over the product elements
ParseElement ==
  /\ pc = "element"
  /\ elemIdx <= Len(elements)
  /\ BrowserOp
  /\ \E failAt \in { "none" } \cup { ReadSteps[i] : i \in 1..Len(ReadSteps) } :
       LET r == ParseProduct(elements[elemIdx], failAt) IN
       \/ /\ r.ok
          /\ products' = Append(products, r.product)
          /\ elemIdx' = elemIdx + 1
          /\ UNCHANGED << pc, last, found, reads, did, elements, exc >>
       \/ /\ ~r.ok
          /\ Unwind(r.exc.type, r.exc.at)
  /\ UNCHANGED << sessionVars, loads, button, more, pageIdx, seen, served,
                  products_data, writerVars >>

\* a mutation: every page's records are stored under the first category
ReturnProducts_FirstKey ==
  /\ pc = "element"
  /\ elemIdx > Len(elements)
  /\ products_data' = DictSet(products_data, PAGE_URLS[1].name, products)
  /\ last' = "none"
  /\ found' = "none"
  /\ reads' = 0
  /\ did' = {}
  /\ products' = << >>
  /\ elements' = << >>
  /\ elemIdx' = 0
  /\ IF pageIdx < NumPages
       THEN pageIdx' = pageIdx + 1 /\ pc' = "get"
       ELSE pageIdx' = pageIdx /\ pc' = "finally"
  /\ seen' = Append(seen, [i \in 1..Len(elements) |-> elements[i].title])
  /\ UNCHANGED << sessionVars, lateOps, loads, button, more, served, exc, writerVars >>

\* line 55, line 124 and the step of the loop of line 122
ReturnProducts ==
  /\ pc = "element"
  /\ elemIdx > Len(elements)
  /\ products_data' = DictSet(products_data, PAGE_URLS[pageIdx].name, products)
  /\ last' = "none"
  /\ found' = "none"
  /\ reads' = 0
  /\ did' = {}
  /\ products' = << >>
  /\ elements' = << >>
  /\ elemIdx' = 0
  /\ IF pageIdx < NumPages
       THEN pageIdx' = pageIdx + 1 /\ pc' = "get"
       ELSE pageIdx' = pageIdx /\ pc' = "finally"
  /\ seen' = Append(seen, [i \in 1..Len(elements) |-> elements[i].title])
  /\ UNCHANGED << sessionVars, lateOps, loads, button, more, served, exc, writerVars >>

\* a mutation: quit at the end of the try body instead of in a finally clause
Quit_NoFinally ==
  /\ pc = "finally"
  /\ IF exc = << >>
       THEN /\ driver' = "closed"
            /\ quits' = quits + 1
            /\ pc' = "return"
            /\ UNCHANGED products_data
       ELSE /\ UNCHANGED << driver, quits >>
            /\ pc' = "aborted"
            /\ products_data' = << >>
  /\ UNCHANGED << sessions, lateOps, loads, button, more, pageLocals, pageIdx, seen,
                  served, exc, writerVars >>

\* a mutation: "return products_data" inside the finally clause, which drops
\* the exception in flight
Quit_ReturnInFinally ==
  /\ pc = "finally"
  /\ driver' = "closed"
  /\ quits' = quits + 1
  /\ pc' = "return"
  /\ button' = "absent"
  /\ more' = 0
  /\ UNCHANGED << sessions, lateOps, loads, pageLocals, pageIdx, seen,
                  served, products_data, exc, writerVars >>

\* lines 125-126: the finally clause; the browser and its page are gone
\* after quit. With an exception in flight, the
\* exception then leaves scrape_products and get_all_products, line 155 not
\* being reached.
Quit ==
  /\ pc = "finally"
  /\ driver' = "closed"
  /\ quits' = quits + 1
  /\ \/ /\ exc = << >>
        /\ pc' = "return"
        /\ UNCHANGED products_data
     \/ /\ exc # << >>
        /\ pc' = "aborted"
        /\ products_data' = << >>
  /\ button' = "absent"
  /\ more' = 0
  /\ UNCHANGED << sessions, lateOps, loads, pageLocals, pageIdx, seen,
                  served, exc, writerVars >>

\* line 127 and line 154: scrape_products returns the mapping
Return ==
  /\ pc = "return"
  /\ result' = << products_data >>
  /\ products_data' = << >>
  /\ w' = 1
  /\ pc' = "write"
  /\ UNCHANGED << sessionVars, lateOps, loads, button, more, pageLocals, pageIdx, seen,
                  served, exc, files, opened >>

\* a mutation: the file is opened for appending
WriteFile_Append ==
  /\ pc = "write"
  /\ w <= Len(result[1])
  /\ LET path == FileName(result[1][w].name) IN
     /\ files' = [files EXCEPT
                    ![path] = [exists |-> TRUE,
                               rows |-> @.rows \o CsvRows(result[1][w].products)]]
     /\ opened' = Append(opened, path)
     /\ w' = w + 1
     /\ UNCHANGED << pc, exc >>
  /\ UNCHANGED << sessionVars, lateOps, loads, button, more, pageLocals, pageIdx, seen,
                  served, products_data, result >>

\* lines 131-150: one iteration of the loop of write_to_csv; open() may fail
WriteFile ==
  /\ pc = "write"
  /\ w <= Len(result[1])
  /\ LET path == FileName(result[1][w].name) IN
     \/ /\ files' = [files EXCEPT
                       ![path] = [exists |-> TRUE,
                                  rows |-> CsvRows(result[1][w].products)]]
        /\ opened' = Append(opened, path)
        /\ w' = w + 1
        /\ UNCHANGED << pc, exc >>
     \/ /\ exc' = << [type |-> "OSError", at |-> "open"] >>
        /\ pc' = "aborted"
        /\ UNCHANGED << files, opened, w >>
  /\ UNCHANGED << sessionVars, lateOps, loads, button, more, pageLocals, pageIdx, seen,
                  served, products_data, result >>

\* the loop of line 131 is exhausted: write_to_csv and get_all_products return
WriteDone ==
  /\ pc = "write"
  /\ w > Len(result[1])
  /\ pc' = "done"
  /\ UNCHANGED << sessionVars, lateOps, loads, button, more, pageLocals, pageIdx, seen,
                  served, products_data, exc, result, files, opened, w >>

Next ==
  \/ Open
  \/ Get
  \/ AcceptCookies
  \/ HasNextPage
  \/ NavigateToNextPage
  \/ FindElements
  \/ ParseElement
  \/ ReturnProducts
  \/ Quit
  \/ Return
  \/ WriteFile
  \/ WriteDone

Spec == Init /\ [][Next]_vars

\* the program keeps running until get_all_products returns or raises
LiveSpec == Init /\ [][Next]_vars /\ WF_vars(Next)

\* --------------------------------------------- get_review_count on any text
\* the characters review-count texts are drawn from
ReviewChars == { "0", "1", " ", "r" }

ReviewTexts == UNION { [1..k -> ReviewChars] : k \in 0..MaxLen }

\* The program on the first page, find_elements having returned one element
\* whose review-count node is missing or holds any text.
ParseInit ==
  /\ pc = "element"
  /\ driver = "open"
  /\ sessions = 1
  /\ quits = 0
  /\ lateOps = FALSE
  /\ loads = << PAGE_URLS[1].url >>
  /\ button = "absent"
  /\ more = 0
  /\ last = "find"
  /\ found = "absent"
  /\ reads = 1
  /\ did = {}
  /\ pageIdx = 1
  /\ products = << >>
  /\ \E r \in { None } \cup { Some(t) : t \in ReviewTexts } :
       elements = << Elem(Some("A"), Some(<<"$", "9", ".", "5">>), Some("a"), 3, r) >>
  /\ elemIdx = 1
  /\ seen = << << Some("A") >> >>
  /\ served = 1
  /\ products_data = << >>
  /\ exc = << >>
  /\ result = << >>
  /\ files = StartDir
  /\ opened = << >>
  /\ w = 0

ParseNext == ParseElement

ParseSpec == ParseInit /\ [][ParseNext]_vars

\* ------------------------------------------------------------------ claims
Terminated == pc \in { "done", "aborted" }

InPage == pc \in { "cookies", "has_next", "navigate", "find", "element" }

\* C1: a session that was opened is closed by exactly one driver.quit() on
\* every exit path of scrape_products, normal or exceptional; no browser call
\* is issued on a closed session; write_to_csv runs only after the close.
C1_SessionClosedOnce ==
  /\ sessions <= 1
  /\ quits <= sessions
  /\ (driver = "closed") <=> (quits = 1)
  /\ (sessions = 1 /\ pc \in { "return", "write", "done", "aborted" })
       => (quits = 1 /\ driver = "closed")
  /\ ~lateOps
  /\ (pc \in { "write", "done" } \/ opened # << >>) => driver = "closed"

\* a run that failed while paginating the third page, the session closed
C1_Witness ==
  /\ pc = "aborted"
  /\ exc # << >>
  /\ exc[1].type = "ElementNotInteractableException"
  /\ Len(loads) = 3
  /\ quits = 1
  /\ driver = "closed"

CatalogNames == << "home", "computers", "laptops", "tablets", "phones", "touch" >>

\* the titles of a record list
Titles(prods) == [i \in 1..Len(prods) |-> Some(prods[i].title)]

\* keys in catalog order, each holding the records read from its own page
C2_OwnPages(mapping) ==
  /\ Len(mapping) <= Len(seen)
  /\ \A k \in 1..Len(mapping) :
       /\ mapping[k].name = CatalogNames[k]
       /\ Titles(mapping[k].products) = seen[k]

\* C2: driver.get is called on the six catalog urls in catalog order, each
\* once, on one session, a page being stored before the next one is loaded;
\* the mapping returned has the six keys in that order, each holding the
\* records of its own page; after a failure no further page is loaded.
C2_PagesInOrder ==
  /\ [](/\ sessions <= 1
        /\ Len(loads) <= NumPages
        /\ \A i \in 1..Len(loads) : loads[i] = PAGE_URLS[i].url
        /\ InPage => Len(products_data) = Len(loads) - 1
        /\ pc = "get" => Len(products_data) = Len(loads)
        /\ C2_OwnPages(products_data)
        /\ result # << >> =>
             /\ Len(loads) = NumPages
             /\ Len(result[1]) = NumPages
             /\ C2_OwnPages(result[1]))
  /\ [][exc # << >> => loads' = loads]_vars

\* a run that returned, laptops holding two records
C2_Witness ==
  /\ pc = "done"
  /\ result # << >>
  /\ Len(result[1][3].products) = 2
  /\ Len(loads) = 6

\* C3: navigate_to_next_page is called only directly after a has_next_page
\* that returned true; find_elements is called once per page, directly after
\* a has_next_page that returned false; every element found yields one
\* record, in element order.
C3_TraversalHalts ==
  /\ [](/\ pc = "navigate" => last = "has:T"
        /\ pc = "find" => (last = "has:F" /\ reads = 0)
        /\ reads <= 1
        /\ pc = "element" =>
             /\ reads = 1
             /\ Len(products) = elemIdx - 1
             /\ \A i \in 1..Len(products) : Some(products[i].title) = elements[i].title)
  /\ [][/\ ((last' \in { "nav:T", "nav:F" } /\ last' # last) \/ "scroll" \in did')
             => (pc = "navigate" /\ last = "has:T")
        /\ reads' > reads => (last = "has:F" /\ found # "displayed")
        /\ (pc = "has_next" /\ button # "displayed" /\ pc' # "finally") => pc' = "find"]_vars

\* a page read once its control was found hidden, both of its elements
\* turned into records
C3_Witness ==
  /\ pc = "element"
  /\ elemIdx > Len(elements)
  /\ Len(products) = 2
  /\ found = "hidden"

RECURSIVE Decimal(_)
\* the decimal numeral of a natural number
Decimal(n) ==
  IF n < 10 THEN << CHOOSE c \in Digits : DigitVal(c) = n >>
  ELSE Append(Decimal(n \div 10), CHOOSE c \in Digits : DigitVal(c) = n % 10)

\* the text starts with the numeral of n, followed by nothing or by whitespace
StartsWithInt(text, n) ==
  LET d == Decimal(n) IN
  /\ Len(text) >= Len(d)
  /\ SubSeq(text, 1, Len(d)) = d
  /\ (Len(text) = Len(d) \/ text[Len(d) + 1] = " ")

\* the numbers whose numeral can be written with the characters drawn
WritableNumbers ==
  { n \in 0..(Pow10(MaxLen) - 1) :
      \A i \in 1..Len(Decimal(n)) : Decimal(n)[i] \in ReviewChars }

\* C4: get_review_count gives 0 and raises nothing when the review-count
\* node is missing, and gives n when the node's text starts with the numeral
\* of n followed by whitespace or nothing.
C4_ReviewCount ==
  [][(pc = "element" /\ elemIdx <= Len(elements)) =>
       LET review == elements[elemIdx].review IN
       \A n \in WritableNumbers :
         ((review = None /\ n = 0) \/ (review # None /\ StartsWithInt(review[1], n))) =>
           /\ exc' # << >> => exc'[1].type = "WebDriverException"
           /\ exc' = << >> =>
                /\ Len(products') = elemIdx
                /\ products'[elemIdx].num_of_reviews = n]_vars

\* the text "1 r" was read as 1
C4_Witness ==
  /\ Len(products) = 1
  /\ elements[1].review = Some(<< "1", " ", "r" >>)
  /\ products[1].num_of_reviews = 1

RequiredSteps == { "get_title", "get_price", "get_description" }

\* C5: a missing cookie banner, pagination control or review-count node
\* raises nothing out of parse_products_on_page (NoSuchElementException
\* leaves it only from a required lookup), the run goes on with the next
\* step, and an advance that finds no control returns false without
\* scrolling, clicking or pausing.
C5_OptionalAbsenceSwallowed ==
  /\ [](exc # << >> /\ exc[1].type = "NoSuchElementException"
          => exc[1].at \in RequiredSteps)
  /\ [][/\ (last' = "cookies" /\ found' = "absent") => (pc' = "has_next" /\ exc' = << >>)
        /\ (last' = "has:F" /\ last # "has:F" /\ found' = "absent")
             => (pc' = "find" /\ exc' = << >>)
        /\ (last' = "nav:F" /\ last # "nav:F")
             => /\ pc' = "has_next"
                /\ exc' = << >>
                /\ did' = {}
        /\ (/\ pc = "element"
            /\ elemIdx <= Len(elements)
            /\ elements[elemIdx].review = None
            /\ exc' # << >>)
             => (exc'[1].at # "get_review_count" \/ exc'[1].type = "WebDriverException")]_vars

\* an advance found no control and did nothing; the loop is back at its test
C5_Witness ==
  /\ pc = "has_next"
  /\ last = "nav:F"
  /\ found = "absent"
  /\ did = {}
  /\ exc = << >>

MissingRequired(e) == e.title = None \/ e.price = None \/ e.description = None

\* C6: an element without title, price or description makes the iteration
\* raise; from then on no element is read, no page is loaded, nothing is
\* stored, returned or written, and the only steps left are driver.quit()
\* and the propagation out of the program.
C6_RequiredAbsenceAborts ==
  /\ [](exc # << >> /\ exc[1].at \in RequiredSteps =>
          /\ pc \in { "finally", "aborted" }
          /\ result = << >>
          /\ opened = << >>
          /\ products = << >>
          /\ Len(products_data) < Len(loads)
          /\ pc = "aborted" => (quits = 1 /\ products_data = << >>))
  /\ [][/\ (pc = "element" /\ elemIdx <= Len(elements) /\ MissingRequired(elements[elemIdx]))
             => (exc' # << >> /\ pc' = "finally" /\ exc'[1].at \in RequiredSteps)
        /\ (exc # << >> /\ exc[1].at \in RequiredSteps)
             => /\ exc' = exc
                /\ loads' = loads
                /\ seen' = seen
                /\ served' = served
                /\ files' = files
                /\ Len(products_data') <= Len(products_data)
                /\ pc' = "aborted"
                /\ quits' = 1]_vars

\* the second page had an element without description; the record of the
\* first page is gone
C6_Witness ==
  /\ pc = "aborted"
  /\ exc # << >>
  /\ exc[1] = [type |-> "NoSuchElementException", at |-> "get_description"]
  /\ Len(loads) = 2
  /\ Len(seen[1]) = 1
  /\ result = << >>

HeaderRow == << "title", "description", "price", "rating", "num_of_reviews" >>

ExpectedRow(product) ==
  << product.title, product.description, product.price, product.rating,
     product.num_of_reviews >>

ExpectedRows(prods) ==
  << HeaderRow >> \o [i \in 1..Len(prods) |-> ExpectedRow(prods[i])]

\* C7: the files written so far each hold the header row and then one row
\* per record of their category, in order, whatever they held before; when
\* write_to_csv has returned these are the six category files, and no other
\* file was touched.
C7_CsvContents ==
  /\ files["notes.csv"] = OldFile
  /\ opened # << >> =>
       /\ result # << >>
       /\ Len(opened) <= Len(result[1])
       /\ \A k \in 1..Len(opened) :
            /\ opened[k] = CatalogNames[k] \o ".csv"
            /\ files[opened[k]].exists
            /\ files[opened[k]].rows = ExpectedRows(result[1][k].products)
  /\ pc = "done" => Len(opened) = 6

\* home.csv, which held an old run's rows, holds the header only; touch.csv
\* was created with two records
C7_Witness ==
  /\ pc = "done"
  /\ files["home.csv"].rows = << HeaderRow >>
  /\ Len(files["touch.csv"].rows) = 3

\* C8: the first row of every file written is title, description, price,
\* rating, num_of_reviews and every cell of a data row is the value of the
\* record field its column header names.
C8_FieldOrder ==
  \A k \in 1..Len(opened) :
    LET rows == files[opened[k]].rows
        prods == result[1][k].products
    IN /\ rows[1] = HeaderRow
       /\ Len(rows) = Len(prods) + 1
       /\ \A i \in 1..Len(prods) :
            /\ Len(rows[i + 1]) = Len(HeaderRow)
            /\ \A j \in 1..Len(HeaderRow) : rows[i + 1][j] = prods[i][rows[1][j]]

\* a row whose description and price were read in the other order
C8_Witness ==
  /\ pc = "done"
  /\ Len(files["home.csv"].rows) = 2
  /\ files["home.csv"].rows[2] = << "A", "a", [m |-> 95, e |-> 1], 3, 12 >>

\* C9: on pages that offer finitely many batches, the pagination loop is
\* left (for element reading, or by an exception) whenever it is entered,
\* and the run ends with the session not open.
C9_PaginationTerminates ==
  /\ <>(Terminated /\ driver # "open")
  /\ (pc \in { "has_next", "navigate" }) ~> (pc = "find" \/ exc # << >>)

\* the last batch was fetched and the control is gone: the next test ends
\* the loop
C9_Witness ==
  /\ pc = "has_next"
  /\ last = "nav:T"
  /\ button # "displayed"
  /\ more = 0

\* C10: while scraping has failed, or has not returned, no file was opened
\* for writing and the directory is as the run found it.
C10_AllOrNothing ==
  ((exc # << >> /\ exc[1].at # "open") \/ result = << >>) =>
     /\ opened = << >>
     /\ files = StartDir

\* the run failed on the last page; the old files are as they were
C10_Witness ==
  /\ pc = "aborted"
  /\ Len(loads) = 6
  /\ Len(seen) = 5
  /\ Len(seen[1]) = 1
  /\ files["home.csv"] = OldFile
  /\ opened = << >>
====
